---- MODULE Spec2Model ----
(***************************************************************************)
(* A model of the PLONK batch verifier (pairing/plonk/src/verifier.rs:     *)
(* ProverProof::verify and ProverProof::oracles) and of the kimchi index   *)
(* assembler (kimchi/src/prover_index.rs: ProverIndex::create).            *)
(*                                                                         *)
(* The scalar field E::Fr is the prime field of order P.  The group G1 has *)
(* order P as well and a group element is written by its discrete          *)
(* logarithm, so a multi-scalar multiplication is a sum of products mod P. *)
(***************************************************************************)
EXTENDS Integers, Sequences, FiniteSets, TLC

VARIABLES
    proofs,        \* verify: the batch `proofs: &Vec<ProverProof<E>>`
    index,         \* verify: `index: &Index<E>`
    pc,            \* verify/oracles: position in the code
    i,             \* verify: number of proofs the for loop has taken
    fq_sponge,     \* oracles: the sponge, as the transcript of its calls
    oracles,       \* oracles: `oracles`, then verify's `oracles`
    ret,           \* oracles: the value returned to verify
    locals,        \* verify: zeta2, zeta3, t_comm, ab, t, r_comm
    batch,         \* verify: `batch`
    rng,           \* verify: number of times the randomness source was used
    urs_calls,     \* verify: number of calls of index.urs.verify
    urs_ok,        \* verify: what index.urs.verify returned
    result,        \* verify: the value returned by verify
    cs,            \* create: `cs`
    srs,           \* create: `srs`
    endo_q,        \* create: `endo_q`
    cpc,           \* create: position in the code
    clocals,       \* create: max_poly_size, linearization, powers_of_alpha, max_quot_size
    created        \* create: the returned ProverIndex

vars == <<proofs, index, pc, i, fq_sponge, oracles, ret, locals, batch, rng,
          urs_calls, urs_ok, result, cs, srs, endo_q, cpc, clocals, created>>

verifyVars == <<proofs, index, pc, i, fq_sponge, oracles, ret, locals, batch,
                rng, urs_calls, urs_ok, result>>

createVars == <<cs, srs, endo_q, cpc, clocals, created>>

(***************************************************************************)
(* Bounds of the model.                                                    *)
(***************************************************************************)
MaxProofs == 2          \* longest batch
MaxSrs == 9             \* largest commitment-setup basis, srs.g.len()
MaxPublic == 2          \* largest number of public inputs, cs.public

(***************************************************************************)
(* The field E::Fr and the group G1.                                       *)
(***************************************************************************)
P == 13

Fr == 0 .. (P - 1)

FAdd(a, b) == (a + b) % P

FSub(a, b) == (a + (P - (b % P))) % P

FMul(a, b) == (a * b) % P

RECURSIVE FPow(_, _)
FPow(x, e) == IF e = 0 THEN 1 ELSE FMul(x, FPow(x, e - 1))

\* Field::inverse: None (here 0) for zero
FInverse(x) == IF x % P = 0 THEN 0 ELSE FPow(x, P - 2)

RECURSIVE SumTo(_, _)
\* f[1] + ... + f[n] in the field
SumTo(f, n) == IF n = 0 THEN 0 ELSE FAdd(SumTo(f, n - 1), f[n])

\* VariableBaseMSM::multi_scalar_mul(bases, scalars)
MultiScalarMul(bases, scalars) ==
    SumTo([k \in 1 .. Len(bases) |-> FMul(bases[k], scalars[k])], Len(bases))

\* DensePolynomial::evaluate: coeffs[1] + coeffs[2] x + ...
PolyEvaluate(coeffs, x) ==
    SumTo([k \in 1 .. Len(coeffs) |-> FMul(coeffs[k], FPow(x, k - 1))], Len(coeffs))

\* Vec::resize(n, zero) as the inverse FFT applies it to the evaluations
Resize(v, n) == [k \in 1 .. n |-> IF k <= Len(v) THEN v[k] ELSE 0]

\* Evaluations::from_vec_and_domain(evals, domain).interpolate(): the
\* coefficients c[k] = n^-1 * sum_j evals[j] * w^(-j k) of the inverse DFT
Interpolate(evals, domain) ==
    LET n == domain.size
        ev == Resize(evals, n)
        winv == FInverse(domain.group_gen)
        ninv == FInverse(n % P)
    IN  [k \in 1 .. n |->
            FMul(ninv, SumTo([j \in 1 .. n |->
                FMul(ev[j], FPow(winv, (j - 1) * (k - 1)))], n))]

(***************************************************************************)
(* The sponge (oracle::sponge::FqSponge).  Its state is the transcript of  *)
(* the calls made on it; a challenge is a digest of the transcript.        *)
(***************************************************************************)
SpongeModulus == 251

Mix(h, x) == (h * 31 + x + 7) % SpongeModulus

RECURSIVE MixAll(_, _, _)
MixAll(h, data, n) == IF n = 0 THEN h ELSE Mix(MixAll(h, data, n - 1), data[n])

RECURSIVE Digest(_, _)
Digest(params, tr) ==
    IF tr = <<>> THEN params
    ELSE LET prev == Digest(params, SubSeq(tr, 1, Len(tr) - 1))
             e == tr[Len(tr)]
         IN  CASE e.op = "absorb_fr" -> MixAll(Mix(prev, 1), e.data, Len(e.data))
               [] e.op = "absorb_g" -> MixAll(Mix(prev, 2), e.data, Len(e.data))
               [] e.op = "challenge" -> Mix(Mix(prev, 3), (prev * prev) % SpongeModulus)

\* EFqSponge::new(params)
SpongeNew(params) == [params |-> params, tr |-> <<>>]

\* FqSponge::absorb_fr
SpongeAbsorbFr(sp, x) ==
    [sp EXCEPT !.tr = Append(@, [op |-> "absorb_fr", data |-> x])]

\* FqSponge::absorb_g
SpongeAbsorbG(sp, g) ==
    [sp EXCEPT !.tr = Append(@, [op |-> "absorb_g", data |-> g])]

\* FqSponge::challenge: the sponge after the squeeze
SpongeSqueeze(sp) ==
    [sp EXCEPT !.tr = Append(@, [op |-> "challenge", data |-> <<>>])]

\* FqSponge::challenge: the challenge a squeezed sponge gave
SpongeChallenge(sp) == Digest(sp.params, sp.tr) % P

(***************************************************************************)
(* The commitment scheme (index.urs).  A commitment to f is f(x) for the   *)
(* trapdoor x of the setup; the opening proof of f at a point z with value *)
(* e is (f(x) - e) / (x - z).                                              *)
(***************************************************************************)
RECURSIVE Combine(_, _, _)
\* sum_k v^(k-1) * (commitment_k - evaluation_k)
Combine(pairs, v, n) ==
    IF n = 0 THEN 0
    ELSE FAdd(Combine(pairs, v, n - 1),
              FMul(FPow(v, n - 1), FSub(pairs[n][1], pairs[n][2])))

\* one opening obligation checks
EntryValid(urs, e) ==
    Combine(e.pairs, e.v, Len(e.pairs)) = FMul(e.proof, FSub(urs.x, e.point))

\* URS::verify(&batch, rng)
UrsVerify(urs, b) == \A k \in 1 .. Len(b) : EntryValid(urs, b[k])

\* URS::open: the opening proof that makes the entry check
UrsOpen(urs, e) ==
    FMul(Combine(e.pairs, e.v, Len(e.pairs)), FInverse(FSub(urs.x, e.point)))

(***************************************************************************)
(* The inputs of verify: verifier indices and proofs.                      *)
(***************************************************************************)
DomainSizes == {2, 4}

\* an element of order n of the multiplicative group of Fr
GroupGen(n) == CHOOSE g \in Fr : FPow(g, n) = 1 /\ \A m \in 1 .. (n - 1) : FPow(g, m) # 1

\* the first Lagrange polynomial of a domain of size n: (X^n - 1) / (n (X - 1))
LagrangeL1(n) == [k \in 1 .. n |-> FInverse(n % P)]

\* crate::index::VerifierIndex for a domain of size n
IndexOf(n) ==
    [domain |-> [size |-> n, group_gen |-> GroupGen(n)],
     l1 |-> LagrangeL1(n),
     qm_comm |-> 3, ql_comm |-> 5, qr_comm |-> 7, qo_comm |-> 11, qc_comm |-> 2,
     sigma_comm |-> <<4, 6, 9>>,
     r |-> 2, o |-> 3,
     urs |-> [x |-> 6],
     fq_sponge_params |-> 17]

Seeds == {0, 1, 6}

PublicInputs == {<<2, 5>>, <<3, 1, 2, 1, 6>>}

Tampers == {"none", "proof1", "proof2"}

\* a ProverProof without its opening proofs
BaseProof(seed, public) ==
    [public |-> public,
     a_comm |-> (1 + 3 * seed) % P, b_comm |-> (4 + 5 * seed) % P,
     c_comm |-> (8 + seed) % P, z_comm |-> (2 + 7 * seed) % P,
     tlow_comm |-> (5 + 2 * seed) % P, tmid_comm |-> (9 + 4 * seed) % P,
     thgh_comm |-> (3 + 6 * seed) % P,
     evals |-> [a |-> (6 + seed) % P, b |-> (2 + 3 * seed) % P,
                c |-> (10 + 5 * seed) % P, sigma1 |-> (7 + 2 * seed) % P,
                sigma2 |-> (1 + 8 * seed) % P, r |-> (12 + seed) % P,
                z |-> (4 + 9 * seed) % P],
     proof1 |-> 0, proof2 |-> 0]

(***************************************************************************)
(* ProverProof::oracles as a function of the proof.                        *)
(***************************************************************************)
\* RandomOracles::zero()
OraclesZero == [beta |-> 0, gamma |-> 0, alpha |-> 0, zeta |-> 0, v |-> 0]

\* the sponge after each line of oracles, lines 115 to 132
OraclesSponge(pf, idx) ==
    LET s0 == SpongeNew(idx.fq_sponge_params)
        s1 == SpongeAbsorbFr(s0, pf.public)
        s2 == SpongeAbsorbG(s1, <<pf.a_comm, pf.b_comm, pf.c_comm>>)
        s3 == SpongeSqueeze(s2)
        s4 == SpongeSqueeze(s3)
        s5 == SpongeAbsorbG(s4, <<pf.z_comm>>)
        s6 == SpongeSqueeze(s5)
        s7 == SpongeAbsorbG(s6, <<pf.tlow_comm, pf.tmid_comm, pf.thgh_comm>>)
        s8 == SpongeSqueeze(s7)
        s9 == SpongeSqueeze(s8)
    IN  <<s1, s2, s3, s4, s5, s6, s7, s8, s9>>

\* the RandomOracles that oracles returns
OraclesOf(pf, idx) ==
    LET s == OraclesSponge(pf, idx)
    IN  [beta |-> SpongeChallenge(s[3]), gamma |-> SpongeChallenge(s[4]),
         alpha |-> SpongeChallenge(s[6]), zeta |-> SpongeChallenge(s[8]),
         v |-> SpongeChallenge(s[9])]

(***************************************************************************)
(* The body of verify's loop, lines 38 to 94.                              *)
(***************************************************************************)
\* zeta2 = oracles.zeta.pow(&[index.domain.size])
Zeta2(o, idx) == FPow(o.zeta, idx.domain.size)

\* zeta3 = zeta2.pow(&[index.domain.size])
Zeta3(o, idx) == FPow(Zeta2(o, idx), idx.domain.size)

TComm(pf, o, idx) ==
    MultiScalarMul(<<pf.tlow_comm, pf.tmid_comm, pf.thgh_comm>>,
                   <<1, Zeta2(o, idx), Zeta3(o, idx)>>)

Ab(pf, o) ==
    FMul(FMul(FAdd(FAdd(pf.evals.a, FMul(o.beta, pf.evals.sigma1)), o.gamma),
              FAdd(FAdd(pf.evals.b, FMul(o.beta, pf.evals.sigma2)), o.gamma)),
         o.alpha)

\* the public-input polynomial at zeta
PublicEval(pf, o, idx) == PolyEvaluate(Interpolate(pf.public, idx.domain), o.zeta)

\* the numerator of t
TNumerator(pf, o, idx) ==
    FSub(FSub(FAdd(pf.evals.r, PublicEval(pf, o, idx)),
              FMul(FMul(Ab(pf, o), FAdd(pf.evals.c, o.gamma)), pf.evals.z)),
         PolyEvaluate(idx.l1, o.zeta))

\* the divisor of t; the division panics when it is zero
TDivisor(o, idx) == FSub(Zeta2(o, idx), 1)

TEval(pf, o, idx) == FMul(TNumerator(pf, o, idx), FInverse(TDivisor(o, idx)))

RComm(pf, o, idx) ==
    MultiScalarMul(
        <<idx.qm_comm, idx.ql_comm, idx.qr_comm, idx.qo_comm, idx.qc_comm,
          pf.z_comm, idx.sigma_comm[3]>>,
        <<FMul(pf.evals.a, pf.evals.b), pf.evals.a, pf.evals.b, pf.evals.c, 1,
          FAdd(FMul(FMul(FMul(FMul(
                   FAdd(FAdd(pf.evals.a, FMul(o.beta, o.zeta)), o.gamma),
                   FAdd(FAdd(pf.evals.b, FMul(FMul(o.beta, idx.r), o.zeta)), o.gamma)),
                   FAdd(FAdd(pf.evals.c, FMul(FMul(o.beta, idx.o), o.zeta)), o.gamma)),
                   pf.evals.z), o.alpha),
               FMul(PolyEvaluate(idx.l1, o.zeta), FMul(o.alpha, o.alpha))),
          FMul(FMul(Ab(pf, o), o.beta), pf.evals.z)>>)

\* the locals of one iteration
LoopLocals(pf, o, idx) ==
    [zeta2 |-> Zeta2(o, idx), zeta3 |-> Zeta3(o, idx),
     t_comm |-> TComm(pf, o, idx), ab |-> Ab(pf, o),
     t |-> TEval(pf, o, idx), r_comm |-> RComm(pf, o, idx)]

\* the entry pushed at lines 72 to 87
Entry1(pf, o, idx, lc) ==
    [point |-> o.zeta,
     v |-> o.v,
     pairs |-> << <<lc.t_comm, lc.t, "None">>,
                  <<lc.r_comm, pf.evals.r, "None">>,
                  <<pf.a_comm, pf.evals.a, "None">>,
                  <<pf.b_comm, pf.evals.b, "None">>,
                  <<pf.c_comm, pf.evals.c, "None">>,
                  <<idx.sigma_comm[1], pf.evals.sigma1, "None">>,
                  <<idx.sigma_comm[2], pf.evals.sigma2, "None">> >>,
     proof |-> pf.proof1]

\* the second entry without the shift by the domain generator
Entry2Unshifted(pf, o, idx) ==
    [point |-> o.zeta,
     v |-> o.v,
     pairs |-> << <<pf.z_comm, pf.evals.z, "None">> >>,
     proof |-> pf.proof2]

\* the entry pushed at lines 88 to 94
Entry2(pf, o, idx) ==
    [point |-> FMul(o.zeta, idx.domain.group_gen),
     v |-> o.v,
     pairs |-> << <<pf.z_comm, pf.evals.z, "None">> >>,
     proof |-> pf.proof2]

\* a push that silently drops an obligation that does not check
BatchPushSkipInvalid(b, e) == IF EntryValid(index.urs, e) THEN Append(b, e) ELSE b

\* Vec::push
BatchPush(b, e) == Append(b, e)

(***************************************************************************)
(* A proof of the batch: a base proof with the opening proofs the          *)
(* commitment scheme gives for its two obligations, or with one of them    *)
(* tampered with.                                                          *)
(***************************************************************************)
MkProof(seed, public, tamper, idx) ==
    LET base == BaseProof(seed, public)
        o == OraclesOf(base, idx)
        p1 == UrsOpen(idx.urs, Entry1(base, o, idx, LoopLocals(base, o, idx)))
        p2 == UrsOpen(idx.urs, Entry2(base, o, idx))
    IN  [base EXCEPT !.proof1 = IF tamper = "proof1" THEN FAdd(p1, 1) ELSE p1,
                     !.proof2 = IF tamper = "proof2" THEN FAdd(p2, 1) ELSE p2]

ProofChoices == Seeds \X PublicInputs \X Tampers

(***************************************************************************)
(* ProverProof::verify, with ProverProof::oracles inlined at its call.     *)
(***************************************************************************)
\* the create variables while verify runs
CreateIdle ==
    /\ cs = [public |-> 0, size |-> 1, endo |-> 0, chacha8 |-> FALSE, lookup |-> FALSE]
    /\ srs = 0
    /\ endo_q = 0
    /\ cpc = "idle"
    /\ clocals = [max_poly_size |-> 0, linearization |-> "none",
                  powers_of_alpha |-> "none", max_quot_size |-> 0]
    /\ created = "none"

Init ==
    /\ \E n \in DomainSizes, len \in 0 .. MaxProofs :
         \E choice \in [1 .. len -> ProofChoices] :
            /\ index = IndexOf(n)
            /\ proofs = [k \in 1 .. len |->
                   MkProof(choice[k][1], choice[k][2], choice[k][3], IndexOf(n))]
    /\ pc = "loop"
    /\ i = 0
    /\ fq_sponge = "none"
    /\ oracles = OraclesZero
    /\ ret = "none"
    /\ locals = "none"
    /\ batch = <<>>
    /\ rng = 0
    /\ urs_calls = 0
    /\ urs_ok = "none"
    /\ result = "none"
    /\ CreateIdle

\* a loop that leaves the last proof of the batch out
VerifyLoopShort ==
    /\ pc = "loop"
    /\ IF i + 1 < Len(proofs)
       THEN /\ i' = i + 1
            /\ pc' = "oracles"
       ELSE /\ i' = i
            /\ pc' = "urs_verify"
    /\ UNCHANGED <<proofs, index, fq_sponge, oracles, ret, locals, batch, rng,
                   urs_calls, urs_ok, result>>
    /\ UNCHANGED createVars

\* line 34: the next proof of the batch, or the end of the loop
VerifyLoop ==
    /\ pc = "loop"
    /\ IF i < Len(proofs)
       THEN /\ i' = i + 1
            /\ pc' = "oracles"
       ELSE /\ i' = i
            /\ pc' = "urs_verify"
    /\ UNCHANGED <<proofs, index, fq_sponge, oracles, ret, locals, batch, rng,
                   urs_calls, urs_ok, result>>
    /\ UNCHANGED createVars

\* lines 114 and 115
OraclesNew ==
    /\ pc = "oracles"
    /\ oracles' = OraclesZero
    /\ fq_sponge' = SpongeNew(index.fq_sponge_params)
    /\ pc' = "absorb_public"
    /\ UNCHANGED <<proofs, index, i, ret, locals, batch, rng, urs_calls, urs_ok, result>>
    /\ UNCHANGED createVars

\* line 118
AbsorbPublic ==
    /\ pc = "absorb_public"
    /\ fq_sponge' = SpongeAbsorbFr(fq_sponge, proofs[i].public)
    /\ pc' = "absorb_witness"
    /\ UNCHANGED <<proofs, index, i, oracles, ret, locals, batch, rng, urs_calls,
                   urs_ok, result>>
    /\ UNCHANGED createVars

\* line 119
AbsorbWitness ==
    /\ pc = "absorb_witness"
    /\ fq_sponge' = SpongeAbsorbG(fq_sponge,
                        <<proofs[i].a_comm, proofs[i].b_comm, proofs[i].c_comm>>)
    /\ pc' = "beta"
    /\ UNCHANGED <<proofs, index, i, oracles, ret, locals, batch, rng, urs_calls,
                   urs_ok, result>>
    /\ UNCHANGED createVars

\* line 121
SqueezeBeta ==
    /\ pc = "beta"
    /\ fq_sponge' = SpongeSqueeze(fq_sponge)
    /\ oracles' = [oracles EXCEPT !.beta = SpongeChallenge(fq_sponge')]
    /\ pc' = "gamma"
    /\ UNCHANGED <<proofs, index, i, ret, locals, batch, rng, urs_calls, urs_ok, result>>
    /\ UNCHANGED createVars

\* line 122
SqueezeGamma ==
    /\ pc = "gamma"
    /\ fq_sponge' = SpongeSqueeze(fq_sponge)
    /\ oracles' = [oracles EXCEPT !.gamma = SpongeChallenge(fq_sponge')]
    /\ pc' = "absorb_z"
    /\ UNCHANGED <<proofs, index, i, ret, locals, batch, rng, urs_calls, urs_ok, result>>
    /\ UNCHANGED createVars

\* alpha squeezed without z_comm absorbed before it
AbsorbZSkipped ==
    /\ pc = "absorb_z"
    /\ pc' = "alpha"
    /\ UNCHANGED <<proofs, index, i, fq_sponge, oracles, ret, locals, batch, rng,
                   urs_calls, urs_ok, result>>
    /\ UNCHANGED createVars

\* line 125
AbsorbZ ==
    /\ pc = "absorb_z"
    /\ fq_sponge' = SpongeAbsorbG(fq_sponge, <<proofs[i].z_comm>>)
    /\ pc' = "alpha"
    /\ UNCHANGED <<proofs, index, i, oracles, ret, locals, batch, rng, urs_calls,
                   urs_ok, result>>
    /\ UNCHANGED createVars

\* line 126
SqueezeAlpha ==
    /\ pc = "alpha"
    /\ fq_sponge' = SpongeSqueeze(fq_sponge)
    /\ oracles' = [oracles EXCEPT !.alpha = SpongeChallenge(fq_sponge')]
    /\ pc' = "absorb_t"
    /\ UNCHANGED <<proofs, index, i, ret, locals, batch, rng, urs_calls, urs_ok, result>>
    /\ UNCHANGED createVars

\* line 129
AbsorbT ==
    /\ pc = "absorb_t"
    /\ fq_sponge' = SpongeAbsorbG(fq_sponge,
                        <<proofs[i].tlow_comm, proofs[i].tmid_comm, proofs[i].thgh_comm>>)
    /\ pc' = "zeta"
    /\ UNCHANGED <<proofs, index, i, oracles, ret, locals, batch, rng, urs_calls,
                   urs_ok, result>>
    /\ UNCHANGED createVars

\* line 130
SqueezeZeta ==
    /\ pc = "zeta"
    /\ fq_sponge' = SpongeSqueeze(fq_sponge)
    /\ oracles' = [oracles EXCEPT !.zeta = SpongeChallenge(fq_sponge')]
    /\ pc' = "v"
    /\ UNCHANGED <<proofs, index, i, ret, locals, batch, rng, urs_calls, urs_ok, result>>
    /\ UNCHANGED createVars

\* line 132
SqueezeV ==
    /\ pc = "v"
    /\ fq_sponge' = SpongeSqueeze(fq_sponge)
    /\ oracles' = [oracles EXCEPT !.v = SpongeChallenge(fq_sponge')]
    /\ pc' = "return"
    /\ UNCHANGED <<proofs, index, i, ret, locals, batch, rng, urs_calls, urs_ok, result>>
    /\ UNCHANGED createVars

\* line 134
OraclesReturn ==
    /\ pc = "return"
    /\ ret' = [tag |-> "Ok", val |-> oracles]
    /\ pc' = "try"
    /\ UNCHANGED <<proofs, index, i, fq_sponge, oracles, locals, batch, rng,
                   urs_calls, urs_ok, result>>
    /\ UNCHANGED createVars

\* line 37: the `?` on the value oracles returned
VerifyTry ==
    /\ pc = "try"
    /\ IF ret.tag = "Ok"
       THEN /\ oracles' = ret.val
            /\ pc' = "compute"
            /\ result' = result
       ELSE /\ oracles' = oracles
            /\ pc' = "done"
            /\ result' = ret
    /\ UNCHANGED <<proofs, index, i, fq_sponge, ret, locals, batch, rng,
                   urs_calls, urs_ok>>
    /\ UNCHANGED createVars

\* lines 38 to 70; the division of line 54 panics on a zero divisor
VerifyCompute ==
    /\ pc = "compute"
    /\ IF TDivisor(oracles, index) = 0
       THEN /\ result' = "panic"
            /\ pc' = "done"
            /\ locals' = locals
       ELSE /\ locals' = LoopLocals(proofs[i], oracles, index)
            /\ pc' = "push1"
            /\ result' = result
    /\ UNCHANGED <<proofs, index, i, fq_sponge, oracles, ret, batch, rng,
                   urs_calls, urs_ok>>
    /\ UNCHANGED createVars

\* lines 72 to 87
VerifyPush1 ==
    /\ pc = "push1"
    /\ batch' = BatchPush(batch, Entry1(proofs[i], oracles, index, locals))
    /\ pc' = "push2"
    /\ UNCHANGED <<proofs, index, i, fq_sponge, oracles, ret, locals, rng,
                   urs_calls, urs_ok, result>>
    /\ UNCHANGED createVars

\* lines 88 to 94
VerifyPush2 ==
    /\ pc = "push2"
    /\ batch' = BatchPush(batch, Entry2(proofs[i], oracles, index))
    /\ pc' = "loop"
    /\ UNCHANGED <<proofs, index, i, fq_sponge, oracles, ret, locals, rng,
                   urs_calls, urs_ok, result>>
    /\ UNCHANGED createVars

\* line 96: index.urs.verify(&batch, rng)
VerifyUrs ==
    /\ pc = "urs_verify"
    /\ urs_ok' = UrsVerify(index.urs, batch)
    /\ urs_calls' = urs_calls + 1
    /\ rng' = rng + 1
    /\ pc' = "match"
    /\ UNCHANGED <<proofs, index, i, fq_sponge, oracles, ret, locals, batch, result>>
    /\ UNCHANGED createVars

\* a match that hands the boolean through
MatchResultPassThrough(ok) == IF ok THEN "Ok(true)" ELSE "Ok(false)"

\* the value of the match of lines 96 to 100
MatchResult(ok) == IF ok THEN "Ok(true)" ELSE "Err(OpenProof)"

\* lines 96 to 100
VerifyMatch ==
    /\ pc = "match"
    /\ result' = MatchResult(urs_ok)
    /\ pc' = "done"
    /\ UNCHANGED <<proofs, index, i, fq_sponge, oracles, ret, locals, batch, rng,
                   urs_calls, urs_ok>>
    /\ UNCHANGED createVars

Next ==
    \/ VerifyLoop
    \/ OraclesNew
    \/ AbsorbPublic
    \/ AbsorbWitness
    \/ SqueezeBeta
    \/ SqueezeGamma
    \/ AbsorbZ
    \/ SqueezeAlpha
    \/ AbsorbT
    \/ SqueezeZeta
    \/ SqueezeV
    \/ OraclesReturn
    \/ VerifyTry
    \/ VerifyCompute
    \/ VerifyPush1
    \/ VerifyPush2
    \/ VerifyUrs
    \/ VerifyMatch

Spec == Init /\ [][Next]_vars

(***************************************************************************)
(* Properties of ProverProof::verify and ProverProof::oracles.             *)
(***************************************************************************)
N == Len(proofs)

\* the challenges of the k-th proof of the batch
OraclesAt(k) == OraclesOf(proofs[k], index)

\* the k-th proof gets through the division of line 54
Computes(k) == TDivisor(OraclesAt(k), index) # 0

\* the two opening obligations of the k-th proof
Obligation1(k) ==
    Entry1(proofs[k], OraclesAt(k), index, LoopLocals(proofs[k], OraclesAt(k), index))

Obligation2(k) == Entry2(proofs[k], OraclesAt(k), index)

\* both obligations of the k-th proof check
ObligationsValid(k) ==
    /\ Computes(k)
    /\ EntryValid(index.urs, Obligation1(k))
    /\ EntryValid(index.urs, Obligation2(k))

\* the k-th proof has obligations and one of them does not check
ObligationsInvalid(k) ==
    /\ Computes(k)
    /\ ~ (EntryValid(index.urs, Obligation1(k)) /\ EntryValid(index.urs, Obligation2(k)))

\* exactly the k-th proof of the batch is invalid
OnlyInvalid(k) ==
    /\ ObligationsInvalid(k)
    /\ \A j \in (1 .. N) \ {k} : ObligationsValid(j)

\* C1: verify is all-or-nothing.  Ok(true) is returned only if both
\* obligations of every proof of the batch are in the list that was checked
\* and every one of them checks; and when exactly one proof of a batch of
\* N >= 1 proofs is invalid, at any position, the call ends in
\* Err(OpenProof).
C1_AllOrNothing ==
    /\ result = "Ok(true)" =>
          /\ Len(batch) = 2 * N
          /\ \A k \in 1 .. N :
                /\ batch[2 * k - 1] = Obligation1(k)
                /\ batch[2 * k] = Obligation2(k)
                /\ ObligationsValid(k)
    /\ (pc = "done" /\ N >= 1 /\ \E k \in 1 .. N : OnlyInvalid(k)) =>
          result = "Err(OpenProof)"

\* a batch of two whose first proof alone is invalid was rejected
C1_Witness ==
    /\ pc = "done"
    /\ N = 2
    /\ OnlyInvalid(1)
    /\ result = "Err(OpenProof)"

\* the transcript that oracles is to produce for a proof
Transcript(pf) ==
    << [op |-> "absorb_fr", data |-> pf.public],
       [op |-> "absorb_g", data |-> <<pf.a_comm, pf.b_comm, pf.c_comm>>],
       [op |-> "challenge", data |-> <<>>],
       [op |-> "challenge", data |-> <<>>],
       [op |-> "absorb_g", data |-> <<pf.z_comm>>],
       [op |-> "challenge", data |-> <<>>],
       [op |-> "absorb_g", data |-> <<pf.tlow_comm, pf.tmid_comm, pf.thgh_comm>>],
       [op |-> "challenge", data |-> <<>>],
       [op |-> "challenge", data |-> <<>>] >>

\* the number of sponge calls made when oracles is at a position
StepsDone ==
    [q \in {"absorb_public", "absorb_witness", "beta", "gamma", "absorb_z",
            "alpha", "absorb_t", "zeta", "v", "return"} |->
        CASE q = "absorb_public" -> 0 [] q = "absorb_witness" -> 1
          [] q = "beta" -> 2 [] q = "gamma" -> 3 [] q = "absorb_z" -> 4
          [] q = "alpha" -> 5 [] q = "absorb_t" -> 6 [] q = "zeta" -> 7
          [] q = "v" -> 8 [] q = "return" -> 9]

\* the challenge squeezed by the m-th call of a transcript
ChallengeAt(params, tr, m) == Digest(params, SubSeq(tr, 1, m)) % P

\* C2: at every position of oracles the sponge, fresh for this proof, has
\* made exactly the calls of the fixed order up to that position (absorb
\* public, absorb a b c, squeeze, squeeze, absorb z, squeeze, absorb tlow
\* tmid thgh, squeeze, squeeze), and the Oracles returned hold the third,
\* fourth, sixth, eighth and ninth call's challenge as beta, gamma, alpha,
\* zeta and v.
C2_TranscriptOrder ==
    /\ pc \in DOMAIN StepsDone =>
          /\ fq_sponge.params = index.fq_sponge_params
          /\ fq_sponge.tr = SubSeq(Transcript(proofs[i]), 1, StepsDone[pc])
    /\ pc = "try" =>
          /\ fq_sponge.tr = Transcript(proofs[i])
          /\ ret.tag = "Ok"
          /\ ret.val.beta = ChallengeAt(index.fq_sponge_params, fq_sponge.tr, 3)
          /\ ret.val.gamma = ChallengeAt(index.fq_sponge_params, fq_sponge.tr, 4)
          /\ ret.val.alpha = ChallengeAt(index.fq_sponge_params, fq_sponge.tr, 6)
          /\ ret.val.zeta = ChallengeAt(index.fq_sponge_params, fq_sponge.tr, 8)
          /\ ret.val.v = ChallengeAt(index.fq_sponge_params, fq_sponge.tr, 9)

\* oracles has returned for the second proof of a batch
C2_Witness ==
    /\ pc = "try"
    /\ i = 2
    /\ fq_sponge.tr = Transcript(proofs[2])
    /\ proofs[2] # proofs[1]

\* C3: verify never returns Ok(false); once the batched check has run, the
\* call ends in Err(OpenProof) if it returned false and in Ok(true) if it
\* returned true, and Ok(true) is returned in no other case.
C3_NeverOkFalse ==
    /\ result \in {"none", "panic", "Ok(true)", "Err(OpenProof)"}
    /\ (pc = "done" /\ urs_calls > 0 /\ urs_ok = FALSE) => result = "Err(OpenProof)"
    /\ (pc = "done" /\ urs_calls > 0 /\ urs_ok = TRUE) => result = "Ok(true)"
    /\ result = "Ok(true)" => (urs_calls = 1 /\ urs_ok = TRUE)
    /\ result = "Err(OpenProof)" => (urs_calls = 1 /\ urs_ok = FALSE)

\* the batched check returned false and verify returned Err(OpenProof)
C3_Witness ==
    /\ pc = "done"
    /\ urs_calls = 1
    /\ urs_ok = FALSE
    /\ result = "Err(OpenProof)"

\* a proof whose public-input vector does not fit the domain of the index
Malformed(pf, idx) == Len(pf.public) > idx.domain.size

\* C4: a batch with a malformed proof never reaches the batched check and
\* does not end in Err(OpenProof).
C4_MalformedDetected ==
    (\E k \in 1 .. N : Malformed(proofs[k], index)) =>
        /\ urs_calls = 0
        /\ result \notin {"Err(OpenProof)", "Ok(true)"}

\* C6: the quotient commitment of every proof is
\* tlow_comm + zeta^n * tmid_comm + zeta^(2n) * thgh_comm.
C6_QuotientWeights ==
    pc \in {"push1", "push2"} =>
        locals.t_comm =
            MultiScalarMul(
                <<proofs[i].tlow_comm, proofs[i].tmid_comm, proofs[i].thgh_comm>>,
                <<1, FPow(oracles.zeta, index.domain.size),
                  FPow(oracles.zeta, 2 * index.domain.size)>>)

\* C7: the list handed to the batched check has two entries per proof, in
\* batch order: at zeta the seven pairs (t_comm, t), (r_comm, r), a, b, c,
\* (sigma_comm[0], sigma1), (sigma_comm[1], sigma2) with proof1, then at
\* zeta * group_gen the pair (z_comm, z) with proof2, both with the proof's
\* own v.
C7_BatchShape ==
    urs_calls > 0 =>
       /\ Len(batch) = 2 * N
       /\ \A k \in 1 .. N :
             LET pf == proofs[k]
                 o == OraclesAt(k)
                 e1 == batch[2 * k - 1]
                 e2 == batch[2 * k]
             IN  /\ e1.point = o.zeta
                 /\ e1.v = o.v
                 /\ Len(e1.pairs) = 7
                 /\ e1.pairs[1] = <<TComm(pf, o, index), TEval(pf, o, index), "None">>
                 /\ e1.pairs[2] = <<RComm(pf, o, index), pf.evals.r, "None">>
                 /\ e1.pairs[3] = <<pf.a_comm, pf.evals.a, "None">>
                 /\ e1.pairs[4] = <<pf.b_comm, pf.evals.b, "None">>
                 /\ e1.pairs[5] = <<pf.c_comm, pf.evals.c, "None">>
                 /\ e1.pairs[6] = <<index.sigma_comm[1], pf.evals.sigma1, "None">>
                 /\ e1.pairs[7] = <<index.sigma_comm[2], pf.evals.sigma2, "None">>
                 /\ e1.proof = pf.proof1
                 /\ e2.point = FMul(o.zeta, index.domain.group_gen)
                 /\ e2.v = o.v
                 /\ e2.pairs = << <<pf.z_comm, pf.evals.z, "None">> >>
                 /\ e2.proof = pf.proof2

\* the batched check ran on the four entries of two different proofs
C7_Witness ==
    /\ urs_calls = 1
    /\ N = 2
    /\ Len(batch) = 4
    /\ proofs[1] # proofs[2]
    /\ batch[1].point # batch[2].point

\* C9: the batched check and the randomness source are used at most once,
\* together, and only after every proof of the batch has its oracles and
\* both its obligations; they are used exactly once when every per-proof
\* step succeeded, and not at all when the call ended in the loop.
C9_CheckLast ==
    /\ urs_calls <= 1
    /\ rng = urs_calls
    /\ urs_calls = 1 =>
          /\ i = N
          /\ Len(batch) = 2 * N
          /\ pc \in {"match", "done"}
    /\ (pc = "done" /\ result \in {"Ok(true)", "Err(OpenProof)"}) => urs_calls = 1
    /\ (pc = "done" /\ result \notin {"Ok(true)", "Err(OpenProof)"}) =>
          /\ urs_calls = 0
          /\ rng = 0
          /\ (result # "panic" => result = ret /\ ret.tag # "Ok")

\* the batched check ran once, after the second of two proofs
C9_Witness ==
    /\ pc = "done"
    /\ N = 2
    /\ i = 2
    /\ urs_calls = 1
    /\ rng = 1

(***************************************************************************)
(* ProverIndex::create.                                                    *)
(***************************************************************************)
\* the permutation width, crate::circuits::wires::PERMUTS
PERMUTS == 7

\* the sizes of the evaluation domain cs.domain.d1
CreateDomainSizes == {1, 2, 4, 8, 16}

\* the endomorphism scalars passed in
EndoValues == {1, 5}

\* crate::linearization::expr_linearization: the expression program and the
\* constraint families that were given powers of alpha, in their order
ExprLinearization(d1, chacha, lookup) ==
    [linearization |-> [domain |-> d1, chacha |-> chacha, lookup |-> lookup],
     powers_of_alpha |->
        <<"Gates", "Permutation">> \o (IF lookup THEN <<"Lookup">> ELSE <<>>)]

\* an assert that lets a single public input through
AssertFailsOffByOne(public, max_poly_size, d1size) ==
    public > 1 /\ ~ (max_poly_size >= d1size)

\* an assert that does not look at the public inputs
AssertFailsUnconditional(public, max_poly_size, d1size) ==
    ~ (max_poly_size >= d1size)

\* lines 68 to 73: the assert fails
AssertFails(public, max_poly_size, d1size) ==
    public > 0 /\ ~ (max_poly_size >= d1size)

\* a quotient bound taken from the degree instead of the size
MaxQuotSizeDegree(d1size) == PERMUTS * (d1size - 1)

\* line 87
MaxQuotSize(d1size) == PERMUTS * d1size

\* the verify variables while create runs
VerifyIdle ==
    /\ proofs = <<>>
    /\ index = "none"
    /\ pc = "idle"
    /\ i = 0
    /\ fq_sponge = "none"
    /\ oracles = OraclesZero
    /\ ret = "none"
    /\ locals = "none"
    /\ batch = <<>>
    /\ rng = 0
    /\ urs_calls = 0
    /\ urs_ok = "none"
    /\ result = "none"

InitCreate ==
    /\ \E public \in 0 .. MaxPublic, size \in CreateDomainSizes,
          chacha \in BOOLEAN, lookup \in BOOLEAN :
          cs = [public |-> public, size |-> size, endo |-> 0,
                chacha8 |-> chacha, lookup |-> lookup]
    /\ srs \in 0 .. MaxSrs
    /\ endo_q \in EndoValues
    /\ cpc = "start"
    /\ clocals = [max_poly_size |-> 0, linearization |-> "none",
                  powers_of_alpha |-> "none", max_quot_size |-> 0]
    /\ created = "none"
    /\ VerifyIdle

\* line 67
CreateMaxPolySize ==
    /\ cpc = "start"
    /\ clocals' = [clocals EXCEPT !.max_poly_size = srs]
    /\ cpc' = "check"
    /\ UNCHANGED <<cs, srs, endo_q, created>>
    /\ UNCHANGED verifyVars

\* lines 68 to 73
CreateCheck ==
    /\ cpc = "check"
    /\ cpc' = IF AssertFails(cs.public, clocals.max_poly_size, cs.size)
              THEN "panicked" ELSE "endo"
    /\ UNCHANGED <<cs, srs, endo_q, clocals, created>>
    /\ UNCHANGED verifyVars

\* line 74
CreateEndo ==
    /\ cpc = "endo"
    /\ cs' = [cs EXCEPT !.endo = endo_q]
    /\ cpc' = "linearize"
    /\ UNCHANGED <<srs, endo_q, clocals, created>>
    /\ UNCHANGED verifyVars

\* lines 77 to 81
CreateLinearize ==
    /\ cpc = "linearize"
    /\ LET lin == ExprLinearization(cs.size, cs.chacha8, cs.lookup)
       IN  clocals' = [clocals EXCEPT !.linearization = lin.linearization,
                                      !.powers_of_alpha = lin.powers_of_alpha]
    /\ cpc' = "quot"
    /\ UNCHANGED <<cs, srs, endo_q, created>>
    /\ UNCHANGED verifyVars

\* line 87
CreateMaxQuot ==
    /\ cpc = "quot"
    /\ clocals' = [clocals EXCEPT !.max_quot_size = MaxQuotSize(cs.size)]
    /\ cpc' = "build"
    /\ UNCHANGED <<cs, srs, endo_q, created>>
    /\ UNCHANGED verifyVars

\* lines 89 to 97
CreateReturn ==
    /\ cpc = "build"
    /\ created' = [cs |-> cs,
                   linearization |-> clocals.linearization,
                   powers_of_alpha |-> clocals.powers_of_alpha,
                   srs |-> srs,
                   max_poly_size |-> clocals.max_poly_size,
                   max_quot_size |-> clocals.max_quot_size]
    /\ cpc' = "done"
    /\ UNCHANGED <<cs, srs, endo_q, clocals>>
    /\ UNCHANGED verifyVars

NextCreate ==
    \/ CreateMaxPolySize
    \/ CreateCheck
    \/ CreateEndo
    \/ CreateLinearize
    \/ CreateMaxQuot
    \/ CreateReturn

SpecCreate == InitCreate /\ [][NextCreate]_vars

(***************************************************************************)
(* Properties of ProverIndex::create.                                      *)
(***************************************************************************)
\* the commitment setup is too small for the domain
BasisTooSmall == srs < cs.size

\* C5: with public inputs and a basis smaller than the domain, create gets
\* no further than the assert: it returns no index, the endomorphism scalar
\* is not injected and the linearization is not computed.
C5_CapacityCheck ==
    (cs.public > 0 /\ BasisTooSmall) =>
        /\ cpc \in {"start", "check", "panicked"}
        /\ created = "none"
        /\ cs.endo = 0
        /\ clocals.linearization = "none"
        /\ clocals.powers_of_alpha = "none"

\* domain size 16, basis size 8, one public input: create has failed
C5_Witness ==
    /\ cpc = "panicked"
    /\ cs.size = 16
    /\ srs = 8
    /\ cs.public = 1
    /\ created = "none"

\* C8: a returned index has max_quot_size = PERMUTS * domain size (56 for a
\* domain of size 8), max_poly_size = the basis size, and cs.endo = the
\* endomorphism scalar passed in.
C8_IndexFields ==
    cpc = "done" =>
        /\ created.max_quot_size = PERMUTS * cs.size
        /\ (cs.size = 8 => created.max_quot_size = 56)
        /\ created.max_poly_size = srs
        /\ created.cs.endo = endo_q
        /\ created.cs.size = cs.size

\* an index for a domain of size 8 was returned
C8_Witness ==
    /\ cpc = "done"
    /\ cs.size = 8
    /\ created.max_quot_size = 56
    /\ created.cs.endo = 5

\* C10: without public inputs create never fails, whatever the basis size,
\* and returns an index with max_poly_size = the basis size; create fails
\* only with public inputs and a basis smaller than the domain.
C10_CheckConditional ==
    /\ cs.public = 0 => cpc # "panicked"
    /\ (cs.public = 0 /\ cpc = "done") => created.max_poly_size = srs
    /\ cpc = "panicked" => (cs.public > 0 /\ BasisTooSmall)

\* an index with a basis smaller than its domain was returned
C10_Witness ==
    /\ cpc = "done"
    /\ cs.public = 0
    /\ created.max_poly_size < created.cs.size
    /\ created.max_poly_size = 3
    /\ created.cs.size = 16

====
